---- MODULE Spec2Model ----
(***************************************************************************)
(* Model of soundreaderfinal.py: batch reconciliation of requested         *)
(* references against the inference log (ledger) and the audio files on    *)
(* disk, the per-reference acquisition in download_audio, and the          *)
(* inference pass that appends to the log.                                 *)
(*                                                                         *)
(* A reference is a record [id, form]: the media item it denotes and the   *)
(* textual form of the URL.  Forms:                                        *)
(*   "watch"  : https://www.youtube.com/watch?v=ID                         *)
(*   "shorts" : https://www.youtube.com/shorts/ID                          *)
(*   "be"     : https://youtu.be/ID                                        *)
(*   "tiktok" : https://www.tiktok.com/@user/video/ID                      *)
(*   "twitch" : https://www.twitch.tv/videos/ID                            *)
(*   "soop"   : https://vod.sooplive.co.kr/player/ID                       *)
(* A video id as the script computes it (url.split("watch?v=")[-1]) is a   *)
(* record of the same shape: form "id" is the bare ID string, any other    *)
(* form is the whole URL string of that form (the split found nothing).    *)
(* An audio file on disk is named "<title> [<ID>].<ext>": it is the record  *)
(* [id, ext], the title being the one of the video.  A ledger row is       *)
(* [url, code]; the timestamp and title columns are not read by any lookup *)
(* and are left out.                                                       *)
(***************************************************************************)
EXTENDS Integers, Sequences, FiniteSets, TLC

VARIABLES
    ledger,                  \* inference_log.csv, a sequence of rows
    files,                   \* names of the audio files in the working directory
    first_file,              \* kind of args.files[0]
    raw,                     \* the references the batch source / command line yields
    focus_idx,               \* args.focus_idx, 0 when not given
    pc,                      \* position of the script
    urls,                    \* urls (batch kinds)
    log_precheck_results,    \* snapshot of the ledger, keyed by video id
    file_precheck_results,   \* snapshot of the files: video id to file name
    process_logged_missing,  \* "undef", "None", "True", "False", "all"
    args_files,              \* args.files as the per-reference loop sees it
    processing_batch,
    skip_all,
    use_existing_all,
    i,                       \* 1-based index of the loop over args.files
    file,                    \* name of the file being inferenced, NoFile if none
    audio,                   \* number of decoded samples of that asset
    todo,                    \* focus_idx values still to pass over the asset
    idx,                     \* chunks of the running pass already classified
    exit_code,               \* -1 while running
    exited_at,               \* where the script ended
    prompts,                 \* answers given to the batch-level prompts
    last,                    \* what the latest download_audio call did
    stats,                   \* counters of external calls
    ledger0,                 \* the ledger when the run started
    files0,                  \* the files when the run started
    failed_urls,              \* lines of the "TikTokFailedURLs - @..txt" file
    focus,                   \* framewise_output[:, focus_idx], confidences in thousandths
    precision,               \* args.precision, frames per pooled window
    threshold,               \* args.threshold, percent
    offset,                  \* seconds of audio before this frame
    subsampled_scores,       \* what subsample returned
    emitted,                 \* the lines print_results wrote under the current header
    numerics                 \* dtype of the confidences and NumPy's scalar promotion

vars == <<ledger, files, first_file, raw, focus_idx, pc, urls, log_precheck_results,
          file_precheck_results, process_logged_missing, args_files, processing_batch,
          skip_all, use_existing_all, i, file, audio, todo, idx, exit_code, exited_at,
          prompts, last, stats, ledger0, files0, failed_urls,
          focus, precision, threshold, offset, subsampled_scores, emitted,
          numerics>>

\* the state of print_timestamps, which the steps outside a class pass leave alone
extractor == <<focus, precision, threshold, offset, subsampled_scores, emitted,
          numerics>>

(***************************************************************************)
(* Bounds and program constants                                            *)
(***************************************************************************)
MaxUrls == 2
MaxPrior == 2

sample_rate == 32000
batch_size == 960000
FARTS == 60
BURPS == 58

\* the ID of an asset whose audio is any audio (two chunks long)
AnyAudio == 6
Ref(id, form) == [id |-> id, form |-> form]
\* the references a batch source or the command line can name
YouTubeRefs == {Ref(1, "watch"), Ref(1, "be"), Ref(2, "shorts")}
OtherRefs == {Ref(3, "tiktok"), Ref(4, "twitch"), Ref(5, "soop")}
Refs == YouTubeRefs \cup OtherRefs
\* an audio file named on the command line: "<title> [<ID>].m4a" of video 1 or 2
LocalRefs == {Ref(1, "file"), Ref(2, "file")}
\* line 1160: "youtube.com" in file or "youtu.be" in file
IsYouTube(u) == u.form \in {"watch", "shorts", "be"}
\* args.focus_idx: 0 stands for "not given", 77 for a manually chosen class
FocusArgs == {0, 77}
\* what a user can type at a prompt ("x" stands for any other input)
FourWayAnswers == {"y", "n", "a", "e", "x"}
Answers == {"y", "n", "a", "x"}
\* args.files[0]: a list file, youtube.com/playlist?list=.., a watch URL carrying
\* &list=.., or a plain video URL.  The channel branch (lines 1023-1136) is a
\* verbatim copy of the playlist branch and is covered by "playlist".
\* "tiktok_account" is tiktok.com/@user: its videos become args.files as they are.
Kinds == {"txt", "playlist", "watchlist", "url", "tiktok_account"}
\* the kinds whose branch reconciles urls with the ledger and the files
Reconciles(kind) == kind \in {"txt", "playlist", "watchlist"}
\* what a source of each kind can name
RefsOf(kind) ==
    CASE kind \in {"playlist", "watchlist"} -> YouTubeRefs
      [] kind = "tiktok_account" -> {Ref(3, "tiktok")}
      [] kind = "url" -> Refs \cup LocalRefs
      [] OTHER -> Refs

Range(s) == {s[k] : k \in DOMAIN s}
Max(a, b) == IF a >= b THEN a ELSE b
SeqsUpTo(S, n) == UNION {[1..m -> S] : m \in 0..n}

(***************************************************************************)
(* Pure helpers of the script                                              *)
(***************************************************************************)
\* str.replace("/shorts/", "/watch?v=")
ReplaceShorts(u) == IF u.form = "shorts" THEN [u EXCEPT !.form = "watch"] ELSE u

\* url.split("watch?v=")[-1]
SplitWatch(u) == IF u.form = "watch" THEN [u EXCEPT !.form = "id"] ELSE u

\* info_dict.get("id") of the metadata the Fetcher resolves for a reference
InfoId(u) == [id |-> u.id, form |-> "id"]

\* the file "<title> [<id>].<ext>"
Name(id, ext) == [id |-> id, ext |-> ext]
\* None where a file name is expected
NoFile == Name(0, "")

\* lines 235, 104, 487, 563 and, for TikTok, line 416
possible_extensions == <<"opus", "m4a", "mp3", "mp4">>
tiktok_possible_extensions == <<"mp4", "opus", "m4a", "mp3">>

\* the files an earlier run or the user can have left in the directory: video
\* 1 as .m4a and as .mp3, video 2 as .m4a
CachedNames == {Name(1, "m4a"), Name(1, "mp3"), Name(2, "m4a")}

\* `video_id in file` for the file f
FileMatches(video_id, f) == video_id.form = "id" /\ video_id.id = f.id

\* some file of the video is in fs
OnDisk(id, fs) == \E f \in fs : f.id = id

\* the scan `for ext in possible_extensions: for file in os.listdir(".")`: the
\* file of the first extension that matches, None when nothing matches
ScanFiles(video_id, fs, exts) ==
    LET hits == {k \in DOMAIN exts :
                    \E f \in fs : FileMatches(video_id, f) /\ f.ext = exts[k]}
    IN IF hits = {} THEN NoFile
       ELSE LET first == CHOOSE k \in hits : \A j \in hits : k <= j
            IN CHOOSE f \in fs : FileMatches(video_id, f) /\ f.ext = exts[first]

NotProcessed == [farts |-> FALSE, burps |-> FALSE]

precheck_log_for_urls(url_list, led) ==
    LET hits == {j \in DOMAIN led : led[j].url \in Range(url_list)}
        keys == {SplitWatch(led[j].url) : j \in hits}
    IN [k \in keys |->
          [farts |-> \E j \in hits : SplitWatch(led[j].url) = k /\ led[j].code = FARTS,
           burps |-> \E j \in hits : SplitWatch(led[j].url) = k /\ led[j].code = BURPS]]

check_log(youtube_url, led) ==
    [farts |-> \E j \in DOMAIN led : led[j].url = youtube_url /\ led[j].code = FARTS,
     burps |-> \E j \in DOMAIN led : led[j].url = youtube_url /\ led[j].code = BURPS]

precheck_files_for_urls(url_list, fs) ==
    LET keys == {SplitWatch(url_list[p]) : p \in DOMAIN url_list}
        found == {k \in keys : ScanFiles(k, fs, possible_extensions) # NoFile}
    IN [k \in found |-> ScanFiles(k, fs, possible_extensions)]

\* a slip of line 126: the file opened with "w", the earlier rows lost
log_inference_Rewrite(led, youtube_url, code) == <<[url |-> youtube_url, code |-> code]>>

\* lines 120-121: nothing is written for a reference that does not start with
\* "http" (a local file) nor for a TikTok URL
log_inference(led, youtube_url, code) ==
    IF youtube_url.form \in {"file", "tiktok"} THEN led
    ELSE Append(led, [url |-> youtube_url, code |-> code])

focus_idx_values(fidx) == IF fidx = 0 THEN <<FARTS, BURPS>> ELSE <<fidx>>

\* lines 622-623: the lengths of the slices chunker yields for len samples
chunker(len, size) ==
    [k \in 1..((len + size - 1) \div size) |->
       IF k * size <= len THEN size ELSE len - (k - 1) * size]

\* a slip of lines 1200-1202: every partial chunk counted
total_chunks_Ceil(len) == (len + batch_size - 1) \div batch_size

\* total_chunks of the frame dispatch
total_chunks(len) ==
    (len \div batch_size)
      + (IF (len % batch_size) > 0 /\ (len % batch_size) >= sample_rate THEN 1 ELSE 0)

(***************************************************************************)
(* Reconciliation: counts, decisions, filter                               *)
(***************************************************************************)
\* the list a batch source resolves to
\* (lines 785-790: a list file keeps the lines that name a YouTube video, in
\* order and with repeats; lines 897-901: the entries of a playlist as they come)
ResolvedUrls(kind, refs) ==
    IF kind = "url" THEN refs
    ELSE LET kept == IF kind = "txt" THEN SelectSeq(refs, IsYouTube) ELSE refs
         IN [p \in DOMAIN kept |-> ReplaceShorts(kept[p])]

\* a slip of lines 792, 905: the test for an empty result left out
NoUrls_Never(us) == FALSE

\* lines 774, 792, 905, 1035: `if not urls`
NoUrls(us) == Len(us) = 0

logged_but_missing_files(lg, fl) == Cardinality({k \in DOMAIN lg : k \notin DOMAIN fl})
existing_but_not_logged(lg, fl) == Cardinality({k \in DOMAIN fl : k \notin DOMAIN lg})
videos_to_process(us, lg) == Max(Len(us) - Cardinality(DOMAIN lg), 0)

\* line 821: "ALL videos are logged AND ALL files exist"
FullySatisfied(us, lg, fl) ==
    Cardinality(DOMAIN lg) = Len(us) /\ Cardinality(DOMAIN fl) = Len(us)

\* a slip of line 834: the four-way choice offered although nothing is logged
Inconsistent_NoLoggedGuard(us, lg, fl) ==
    \/ logged_but_missing_files(lg, fl) > 0
    \/ existing_but_not_logged(lg, fl) > 0
    \/ videos_to_process(us, lg) # Len(us)

\* line 834: the guard of the four-way choice
Inconsistent(us, lg, fl) ==
    /\ Cardinality(DOMAIN lg) > 0
    /\ \/ logged_but_missing_files(lg, fl) > 0
       \/ existing_but_not_logged(lg, fl) > 0
       \/ videos_to_process(us, lg) # Len(us)

\* a slip of line 826: everything but "n" taken as yes
RerunAll_NotNo(user_input) == user_input # "n"

\* line 826: the answer that re-runs inference for all videos
RerunAll(user_input) == user_input = "y"

\* a slip of lines 865-867: an invalid answer processes everything
PolicyOf_InvalidAll(user_decision) ==
    CASE user_decision = "n" -> "False"
      [] user_decision = "y" -> "True"
      [] OTHER -> "all"

\* lines 843-867: user_decision -> process_logged_missing
PolicyOf(user_decision) ==
    CASE user_decision = "n" -> "False"
      [] user_decision = "y" -> "True"
      [] user_decision = "a" -> "all"
      [] OTHER -> "False"

\* lines 848, 856, 862: the answers that end the run inside the prompt
ExitsAtPrompt(user_decision, us, lg, fl) ==
    \/ user_decision = "n" /\ videos_to_process(us, lg) = 0
    \/ user_decision = "y" /\ (Cardinality(DOMAIN lg) = 0 \/ logged_but_missing_files(lg, fl) = 0)
    \/ user_decision = "e"

\* a slip of lines 887-888: the last branch of the filter loop left out
Selected_NoUnloggedCached(plm, log_entry_exists, file_exists, lbm) ==
    \/ plm = "all"
    \/ plm = "True" /\ log_entry_exists /\ ~file_exists /\ lbm > 0
    \/ plm \in {"None", "False"} /\ ~log_entry_exists

\* a slip of line 879: 'Y' taking every logged url, missing file or not
Selected_RedownloadCached(plm, log_entry_exists, file_exists, lbm) ==
    \/ plm = "all"
    \/ plm = "True" /\ log_entry_exists /\ lbm > 0
    \/ plm \in {"None", "False"} /\ ~log_entry_exists
    \/ ~log_entry_exists /\ file_exists

\* a slip of line 881: the skip policy taking the logged urls too
Selected_SkipTakesLogged(plm, log_entry_exists, file_exists, lbm) ==
    \/ plm = "all"
    \/ plm = "True" /\ log_entry_exists /\ ~file_exists /\ lbm > 0
    \/ plm \in {"None", "False"}
    \/ ~log_entry_exists /\ file_exists

\* lines 875-888: does the filter loop append this url
Selected(plm, log_entry_exists, file_exists, lbm) ==
    \/ plm = "all"
    \/ plm = "True" /\ log_entry_exists /\ ~file_exists /\ lbm > 0
    \/ plm \in {"None", "False"} /\ ~log_entry_exists
    \/ ~log_entry_exists /\ file_exists

\* a slip of line 890: the url put in front of the list instead of appended
FilterUrls_Prepended(us, plm, lg, fl) ==
    LET kept == SelectSeq(us, LAMBDA u : Selected(plm, SplitWatch(u) \in DOMAIN lg,
                                                  SplitWatch(u) \in DOMAIN fl,
                                                  logged_but_missing_files(lg, fl)))
    IN [n \in DOMAIN kept |-> kept[Len(kept) + 1 - n]]

\* lines 869-891: the filter loop
FilterUrls(us, plm, lg, fl) ==
    SelectSeq(us, LAMBDA u : Selected(plm, SplitWatch(u) \in DOMAIN lg,
                                      SplitWatch(u) \in DOMAIN fl,
                                      logged_but_missing_files(lg, fl)))

\* lines 1139-1147
ProcessingBatch(kind) == kind \in {"txt", "playlist", "tiktok_account"}

(***************************************************************************)
(* Initial states                                                          *)
(***************************************************************************)
\* Earlier runs: each pass over a reference with some focus_idx left its rows in
\* the ledger.  The ledger a run starts from holds the rows of at most MaxPrior
\* of these passes.
PriorPasses == << <<Ref(1, "watch"), 0>>, <<Ref(1, "watch"), 77>>,
                  <<Ref(2, "watch"), 0>>, <<Ref(1, "be"), 0>> >>
PassRows(p) == [k \in DOMAIN focus_idx_values(p[2]) |->
                  [url |-> p[1], code |-> focus_idx_values(p[2])[k]]]

RECURSIVE LedgerOf(_, _)
LedgerOf(k, S) ==
    IF k > Len(PriorPasses) THEN << >>
    ELSE (IF k \in S THEN PassRows(PriorPasses[k]) ELSE << >>) \o LedgerOf(k + 1, S)

\* the decoded length, in samples, of the audio file carrying ID f: 31 s,
\* 0.5 s, 30 s, one sample short of 31 s, one sample short of 1 s
AudioLenOf(f) ==
    CASE f \in {1, AnyAudio} -> 992000
      [] f = 2 -> 16000
      [] f = 3 -> 960000
      [] f = 4 -> 991999
      [] OTHER -> 31999

\* the record of one acquisition call: the function called, the flags and the
\* logged / cached view it started from, the prompts it showed with the answer
\* it read, the Fetcher calls it made, what it returned, and whether a file of
\* the video was on disk when it was called
NoCall == [pos |-> 0, fn |-> "", branch |-> "", prompts |-> {}, answer |-> "", ret |-> "",
           removed |-> FALSE, meta |-> 0, download |-> 0, logged |-> FALSE,
           existing |-> NoFile, skip_all |-> FALSE, use_existing_all |-> FALSE, on_disk |-> FALSE]

\* the "TikTokFailedURLs - @..txt" file an earlier run of the account left behind
FailedAtStart(kind) ==
    IF kind = "tiktok_account" THEN {<< >>, <<Ref(3, "tiktok")>>} ELSE {<< >>}

Init ==
    /\ \E S \in SUBSET DOMAIN PriorPasses :
          Cardinality(S) <= MaxPrior /\ ledger = LedgerOf(1, S)
    /\ files \in SUBSET CachedNames
    /\ first_file \in Kinds
    /\ raw \in SeqsUpTo(RefsOf(first_file), MaxUrls)
    /\ first_file = "url" => Len(raw) > 0
    /\ focus_idx \in FocusArgs
    /\ pc = "start"
    /\ urls = << >>
    /\ log_precheck_results = << >>
    /\ file_precheck_results = << >>
    /\ process_logged_missing = "undef"
    /\ args_files = << >>
    /\ processing_batch = FALSE
    /\ skip_all = FALSE
    /\ use_existing_all = FALSE
    /\ i = 0
    /\ file = NoFile
    /\ audio = 0
    /\ todo = << >>
    /\ idx = 0
    /\ exit_code = -1
    /\ exited_at = ""
    /\ prompts = [rerun_all |-> << >>, four_way |-> << >>, retry |-> << >>]
    /\ last = NoCall
    /\ stats = [meta |-> 0, download |-> 0, infer |-> 0, total_videos |-> 0]
    /\ ledger0 = ledger
    /\ files0 = files
    /\ failed_urls \in FailedAtStart(first_file)
    /\ focus = << >>
    /\ precision = 100
    /\ threshold = 20
    /\ offset = 0
    /\ subsampled_scores = << >>
    /\ emitted = << >>
    /\ numerics = "float32_legacy"

(***************************************************************************)
(* Resolution and reconciliation (lines 782-891, 895-1021, 1023-1136)      *)
(***************************************************************************)
\* lines 1232-1245: after the loop of a TikTok account the file of failed URLs,
\* when there is one, is listed and the retry prompt shown
RetryOffered ==
    processing_batch /\ first_file = "tiktok_account" /\ failed_urls # << >>

\* the loop `for i, file in enumerate(args.files)` reaches index k; past the
\* last index the script goes through lines 1232-1261
Continue(k, fs) ==
    /\ i' = k
    /\ IF k > Len(fs)
       THEN IF RetryOffered
            THEN pc' = "retry" /\ UNCHANGED <<exit_code, exited_at>>
            ELSE pc' = "done" /\ exit_code' = 0 /\ exited_at' = "end"
       ELSE pc' = "acquire" /\ UNCHANGED <<exit_code, exited_at>>

Exit(code, where) ==
    /\ pc' = "done"
    /\ exit_code' = code
    /\ exited_at' = where

\* lines 784-794, 903-907, 1033-1037: the batch source yields nothing;
\* process_logged_missing is None by then
ResolveEmpty ==
    /\ pc = "start"
    /\ UNCHANGED extractor
    /\ Reconciles(first_file)
    /\ NoUrls(ResolvedUrls(first_file, raw))
    /\ urls' = ResolvedUrls(first_file, raw)
    /\ process_logged_missing' = "None"
    /\ Exit(1, "resolve")
    /\ UNCHANGED <<ledger, files, first_file, raw, focus_idx, log_precheck_results,
                   file_precheck_results, args_files,
                   processing_batch, skip_all, use_existing_all, i, file, audio, todo, idx,
                   prompts, last, stats, ledger0, files0, failed_urls>>

\* lines 757-777: a TikTok account; its videos are processed as a batch
TiktokAccountStart ==
    /\ pc = "start"
    /\ UNCHANGED extractor
    /\ first_file = "tiktok_account"
    /\ IF NoUrls(raw)
       THEN /\ Exit(1, "resolve")
            /\ UNCHANGED <<args_files, processing_batch, skip_all, i>>
       ELSE /\ args_files' = raw
            /\ processing_batch' = ProcessingBatch(first_file)
            /\ skip_all' = FALSE
            /\ Continue(1, raw)
    /\ UNCHANGED <<ledger, files, first_file, raw, focus_idx, urls, log_precheck_results,
                   file_precheck_results, process_logged_missing, use_existing_all,
                   file, audio, todo, idx, prompts, last, stats, ledger0, files0, failed_urls>>

\* a plain URL on the command line: no reconciliation, lines 1139-1152
SingleStart ==
    /\ pc = "start"
    /\ UNCHANGED extractor
    /\ first_file = "url"
    /\ args_files' = raw
    /\ processing_batch' = ProcessingBatch(first_file)
    /\ skip_all' = FALSE
    /\ Continue(1, raw)
    /\ UNCHANGED <<ledger, files, first_file, raw, focus_idx, urls, log_precheck_results,
                   file_precheck_results, process_logged_missing, use_existing_all,
                   file, audio, todo, idx, prompts, last, stats, ledger0, files0, failed_urls>>

\* what every batch branch leaves behind once the filter loop has run
Reconciled(us, lg, fl, plm, selected) ==
    /\ urls' = us
    /\ log_precheck_results' = lg
    /\ file_precheck_results' = fl
    /\ process_logged_missing' = plm
    /\ args_files' = selected
    /\ processing_batch' = ProcessingBatch(first_file)
    /\ skip_all' = FALSE
    /\ Continue(1, selected)

\* sys.exit / exit() inside a batch prompt
ExitedAtPrompt(us, lg, fl, plm) ==
    /\ urls' = us
    /\ log_precheck_results' = lg
    /\ file_precheck_results' = fl
    /\ process_logged_missing' = plm
    /\ Exit(0, "reconcile")
    /\ UNCHANGED <<args_files, processing_batch, skip_all, i>>

\* lines 821-831: everything logged and every file present
ReconcileFullySatisfied ==
    /\ pc = "start"
    /\ UNCHANGED extractor
    /\ Reconciles(first_file)
    /\ LET us == ResolvedUrls(first_file, raw)
           lg == precheck_log_for_urls(us, ledger)
           fl == precheck_files_for_urls(us, files)
       IN /\ ~NoUrls(us)
          /\ FullySatisfied(us, lg, fl)
          /\ \E user_input \in Answers :
               /\ prompts' = [prompts EXCEPT !.rerun_all = Append(@, user_input)]
               /\ IF RerunAll(user_input)
                  THEN \* urls_to_process = urls; the filter loop then appends to that list
                       Reconciled(us \o FilterUrls(us, "None", lg, fl), lg, fl, "None",
                                  us \o FilterUrls(us, "None", lg, fl))
                  ELSE ExitedAtPrompt(us, lg, fl, "None")
    /\ UNCHANGED <<ledger, files, first_file, raw, focus_idx, use_existing_all,
                   file, audio, todo, idx, last, stats, ledger0, files0, failed_urls>>

\* lines 834-867: the four-way choice
ReconcileFourWay ==
    /\ pc = "start"
    /\ UNCHANGED extractor
    /\ Reconciles(first_file)
    /\ LET us == ResolvedUrls(first_file, raw)
           lg == precheck_log_for_urls(us, ledger)
           fl == precheck_files_for_urls(us, files)
       IN /\ ~NoUrls(us)
          /\ ~FullySatisfied(us, lg, fl)
          /\ Inconsistent(us, lg, fl)
          /\ \E user_decision \in FourWayAnswers :
               /\ prompts' = [prompts EXCEPT !.four_way = Append(@, user_decision)]
               /\ IF ExitsAtPrompt(user_decision, us, lg, fl)
                  THEN ExitedAtPrompt(us, lg, fl,
                                      IF user_decision = "e" THEN "None"
                                      ELSE PolicyOf(user_decision))
                  ELSE Reconciled(us, lg, fl, PolicyOf(user_decision),
                                  FilterUrls(us, PolicyOf(user_decision), lg, fl))
    /\ UNCHANGED <<ledger, files, first_file, raw, focus_idx, use_existing_all,
                   file, audio, todo, idx, last, stats, ledger0, files0, failed_urls>>

\* neither prompt applies: the filter loop runs with process_logged_missing = None
ReconcilePassThrough ==
    /\ pc = "start"
    /\ UNCHANGED extractor
    /\ Reconciles(first_file)
    /\ LET us == ResolvedUrls(first_file, raw)
           lg == precheck_log_for_urls(us, ledger)
           fl == precheck_files_for_urls(us, files)
       IN /\ ~NoUrls(us)
          /\ ~FullySatisfied(us, lg, fl)
          /\ ~Inconsistent(us, lg, fl)
          /\ Reconciled(us, lg, fl, "None", FilterUrls(us, "None", lg, fl))
    /\ UNCHANGED <<ledger, files, first_file, raw, focus_idx, use_existing_all,
                   file, audio, todo, idx, prompts, last, stats, ledger0, files0, failed_urls>>

(***************************************************************************)
(* Acquisition: download_audio (lines 225-410)                             *)
(***************************************************************************)
\* a slip of line 296: the sticky answer is never looked at
UsesExistingForAll_Never(uea) == FALSE

\* line 296: 'use for all' was answered earlier in the run
UsesExistingForAll(uea) == uea

\* a slip of line 331: the sticky answer is never looked at
SkipsForAll_Never(sa) == FALSE

\* line 331: 'apply to all' was answered earlier in the run
SkipsForAll(sa) == sa

\* line 340: the batch re-run was chosen, the per-video question is left out
\* a slip of line 314: every answer but 'y' and 'a' removes the file
Redownloads_UnlessYes(user_input) == user_input \notin {"y", "a"}

\* line 314: the answer that removes the cached file and downloads again
Redownloads(user_input) == user_input = "n"

\* a slip of line 340: the prompt shown on the re-run-all path too
RerunPromptSuppressed_Never(pb, af, us) == FALSE

RerunPromptSuppressed(pb, af, us) == pb /\ af = us

\* line 317: os.remove(existing_file)
AfterRemove(fs, existing_file) == fs \ {existing_file}

\* a slip of line 359: the file is fetched again before it is returned
ReturnExisting_Refetched(o, existing_file) ==
    [o EXCEPT !.ret = "file", !.file = existing_file, !.download = 1]

\* lines 299, 308, 313, 359: return existing_file, video_title
ReturnExisting(o, existing_file) == [o EXCEPT !.ret = "file", !.file = existing_file]

\* what an acquisition function hands back before it has done anything
NoResult == [ret |-> "none", file |-> NoFile, skip_all |-> skip_all,
             use_existing_all |-> use_existing_all, files |-> files,
             failed_urls |-> failed_urls, prompts |-> {}, answer |-> "", branch |-> "",
             removed |-> FALSE, meta |-> 1, download |-> 0, logged |-> FALSE,
             existing |-> NoFile]

\* At most one input() call is executed per call: user_input is its answer.
download_audio(youtube_url, auto_redownload, meta_ok, user_input, dl_ok) ==
    LET video_id == InfoId(youtube_url)
        \* Step 1, lines 272-275
        processed ==
            IF processing_batch
            THEN IF video_id \in DOMAIN log_precheck_results
                 THEN log_precheck_results[video_id] ELSE NotProcessed
            ELSE check_log(youtube_url, ledger)
        logged == processed.farts \/ processed.burps
        \* Step 2, lines 278-292
        existing_file ==
            IF processing_batch
            THEN IF video_id \in DOMAIN file_precheck_results
                 THEN file_precheck_results[video_id] ELSE NoFile
            ELSE ScanFiles(video_id, files, possible_extensions)
        out == [NoResult EXCEPT !.logged = logged, !.existing = existing_file]
        Ask(o, prompt) == [o EXCEPT !.prompts = @ \cup {prompt}, !.answer = user_input]
        \* lines 385-410: the download writes "<title> [<id>].m4a"; the name
        \* handed back is the first "<title> [<id>].<ext>" on disk in the order
        \* of possible_extensions.  A failure raises out of the function.
        Fetch(o) ==
            IF dl_ok
            THEN LET fs == o.files \cup {Name(youtube_url.id, "m4a")}
                 IN [o EXCEPT !.ret = "file",
                              !.file = ScanFiles(video_id, fs, possible_extensions),
                              !.files = fs, !.download = 1]
            ELSE [o EXCEPT !.ret = "raise", !.download = 1]
        \* lines 361-383: no file; logged means a re-download
        Missing(o) ==
            IF logged
            THEN IF auto_redownload
                 THEN Fetch([o EXCEPT !.branch = "REDOWNLOAD_MISSING"])
                 ELSE LET q == Ask([o EXCEPT !.branch = "REDOWNLOAD_MISSING"], "redownload")
                      IN IF user_input = "y" THEN Fetch(q)
                         ELSE IF processing_batch
                              THEN [q EXCEPT !.ret = "none"]
                              ELSE [q EXCEPT !.ret = "exit"]
            ELSE Fetch([o EXCEPT !.branch = IF @ = "" THEN "DOWNLOAD_NEW" ELSE @])
        \* lines 320-359: a file exists
        Existing(o) ==
            IF logged
            THEN IF SkipsForAll(skip_all)
                 THEN [o EXCEPT !.ret = "none", !.branch = "AUTO_SKIP"]
                 ELSE IF RerunPromptSuppressed(processing_batch, args_files, urls)
                      THEN ReturnExisting([o EXCEPT !.branch = "REINFER_EXISTING"],
                                          existing_file)
                      ELSE LET q == Ask([o EXCEPT !.branch = "REUSE_EXISTING"],
                                        "rerun_inference")
                           IN CASE user_input = "a" ->
                                     [q EXCEPT !.ret = "none", !.skip_all = TRUE]
                                [] user_input = "n" -> [q EXCEPT !.ret = "none"]
                                [] OTHER -> ReturnExisting(q, existing_file)
            ELSE ReturnExisting(o, existing_file)
        \* lines 294-318: a file exists and nothing is logged
        Conflict(o) ==
            IF UsesExistingForAll(use_existing_all)
            THEN ReturnExisting([o EXCEPT !.branch = "REUSE_EXISTING"], existing_file)
            ELSE LET q == Ask([o EXCEPT !.branch = "REUSE_EXISTING"], "use_existing")
                 IN CASE user_input = "a" ->
                           ReturnExisting([q EXCEPT !.use_existing_all = TRUE], existing_file)
                      [] user_input = "y" -> ReturnExisting(q, existing_file)
                      [] Redownloads(user_input) ->
                           \* line 317: os.remove raises FileNotFoundError when
                           \* the name of the snapshot is no longer on disk
                           IF existing_file \in files
                           THEN Missing([q EXCEPT
                                    !.files = AfterRemove(@, existing_file),
                                    !.removed = TRUE])
                           ELSE [q EXCEPT !.ret = "raise"]
                      [] OTHER -> Existing(q)
    IN IF ~meta_ok THEN [out EXCEPT !.branch = "META_FAILED", !.logged = FALSE,
                                    !.existing = NoFile]
       ELSE IF existing_file # NoFile /\ ~logged THEN Conflict(out)
       ELSE IF existing_file # NoFile THEN Existing(out)
       ELSE Missing(out)

\* lines 412-470; a failed metadata lookup is written to the failed-URLs file
download_tiktok(tiktok_url, meta_ok, dl_ok) ==
    LET existing_file == ScanFiles(InfoId(tiktok_url), files, tiktok_possible_extensions)
        out == [NoResult EXCEPT !.existing = existing_file]
    IN IF ~meta_ok
       THEN [NoResult EXCEPT !.branch = "META_FAILED",
                             !.failed_urls = Append(@, tiktok_url)]
       ELSE IF existing_file # NoFile
       THEN ReturnExisting([out EXCEPT !.branch = "REUSE_EXISTING"], existing_file)
       ELSE IF dl_ok
       THEN [out EXCEPT !.ret = "file", !.file = Name(tiktok_url.id, "mp4"),
                        !.branch = "DOWNLOAD_NEW",
                        !.files = @ \cup {Name(tiktok_url.id, "mp4")}, !.download = 1]
       ELSE [out EXCEPT !.branch = "DOWNLOAD_FAILED", !.download = 1]

\* lines 483-556
download_twitch(twitch_url, meta_ok, dl_ok) ==
    LET existing_file == ScanFiles(InfoId(twitch_url), files, possible_extensions)
        out == [NoResult EXCEPT !.existing = existing_file]
    IN IF ~meta_ok
       THEN [NoResult EXCEPT !.branch = "META_FAILED"]
       ELSE IF existing_file # NoFile
       THEN ReturnExisting([out EXCEPT !.branch = "REUSE_EXISTING"], existing_file)
       ELSE IF dl_ok
       THEN [out EXCEPT !.ret = "file", !.file = Name(twitch_url.id, "m4a"),
                        !.branch = "DOWNLOAD_NEW",
                        !.files = @ \cup {Name(twitch_url.id, "m4a")}, !.download = 1]
       ELSE [out EXCEPT !.branch = "DOWNLOAD_FAILED", !.download = 1]

\* lines 558-620.  Line 611 looks for "<base>.<ext>" with ext already carrying
\* its dot ("<base>..opus"), which no download produces: the downloaded file
\* stays on disk and the function returns (None, None).
download_soop(soop_url, meta_ok, dl_ok) ==
    LET existing_file == ScanFiles(InfoId(soop_url), files, possible_extensions)
        out == [NoResult EXCEPT !.existing = existing_file]
    IN IF ~meta_ok
       THEN [NoResult EXCEPT !.branch = "META_FAILED"]
       ELSE IF existing_file # NoFile
       THEN ReturnExisting([out EXCEPT !.branch = "REUSE_EXISTING"], existing_file)
       ELSE IF dl_ok
       THEN [out EXCEPT !.branch = "DOWNLOAD_FAILED",
                        !.files = @ \cup {Name(soop_url.id, "m4a")}, !.download = 1]
       ELSE [out EXCEPT !.branch = "DOWNLOAD_FAILED", !.download = 1]

\* the effects of one acquisition call on the state, lines 1155-1161
Acquired(fn, r) ==
    /\ files' = r.files
    /\ skip_all' = r.skip_all
    /\ use_existing_all' = r.use_existing_all
    /\ failed_urls' = r.failed_urls
    /\ last' = [pos |-> i, fn |-> fn, branch |-> r.branch, prompts |-> r.prompts,
                answer |-> r.answer, ret |-> r.ret, removed |-> r.removed,
                meta |-> r.meta, download |-> r.download, logged |-> r.logged,
                existing |-> r.existing, skip_all |-> skip_all,
                use_existing_all |-> use_existing_all,
                on_disk |-> OnDisk(args_files[i].id, files)]
    /\ stats' = [stats EXCEPT !.meta = @ + r.meta, !.download = @ + r.download,
                              !.total_videos = @ + 1]
    /\ UNCHANGED <<ledger, first_file, raw, focus_idx, urls, log_precheck_results,
                   file_precheck_results, process_logged_missing, args_files,
                   processing_batch, audio, todo, idx, prompts, ledger0, files0>>

\* lines 1152-1166: one iteration of the loop up to the return of download_audio
DownloadAudio ==
    /\ pc = "acquire"
    /\ UNCHANGED extractor
    /\ IsYouTube(args_files[i])
    /\ \E meta_ok \in BOOLEAN, dl_ok \in BOOLEAN, user_input \in Answers :
         LET r == download_audio(args_files[i], process_logged_missing = "all",
                                 meta_ok, user_input, dl_ok)
         IN /\ Acquired("download_audio", r)
            /\ CASE r.ret = "file" ->
                      /\ pc' = "load" /\ file' = r.file
                      /\ UNCHANGED <<i, exit_code, exited_at>>
                 [] r.ret = "none" -> file' = NoFile /\ Continue(i + 1, args_files)
                 [] r.ret = "exit" ->
                      file' = NoFile /\ Exit(1, "coordinator") /\ UNCHANGED i
                 [] OTHER -> file' = NoFile /\ Exit(1, "crash") /\ UNCHANGED i

\* lines 1167-1168: the result goes to load_audio as it is, None included
DownloadTiktok ==
    /\ pc = "acquire"
    /\ UNCHANGED extractor
    /\ args_files[i].form = "tiktok"
    /\ \E meta_ok \in BOOLEAN, dl_ok \in BOOLEAN :
         LET r == download_tiktok(args_files[i], meta_ok, dl_ok)
         IN /\ Acquired("download_tiktok", r)
            /\ pc' = "load" /\ file' = r.file
            /\ UNCHANGED <<i, exit_code, exited_at>>

\* lines 1170-1171: the result goes to load_audio as it is, None included
DownloadTwitch ==
    /\ pc = "acquire"
    /\ UNCHANGED extractor
    /\ args_files[i].form = "twitch"
    /\ \E meta_ok \in BOOLEAN, dl_ok \in BOOLEAN :
         LET r == download_twitch(args_files[i], meta_ok, dl_ok)
         IN /\ Acquired("download_twitch", r)
            /\ pc' = "load" /\ file' = r.file
            /\ UNCHANGED <<i, exit_code, exited_at>>

\* lines 1173-1179: (None, None) moves on to the next reference
DownloadSoop ==
    /\ pc = "acquire"
    /\ UNCHANGED extractor
    /\ args_files[i].form = "soop"
    /\ \E meta_ok \in BOOLEAN, dl_ok \in BOOLEAN :
         LET r == download_soop(args_files[i], meta_ok, dl_ok)
         IN /\ Acquired("download_soop", r)
            /\ IF r.ret = "file"
               THEN /\ pc' = "load" /\ file' = r.file
                    /\ UNCHANGED <<i, exit_code, exited_at>>
               ELSE file' = NoFile /\ Continue(i + 1, args_files)

\* lines 1180-1189: a reference of no known platform is taken as the path of an
\* audio file: no acquisition call, the path goes to load_audio as it is
LocalFile ==
    /\ pc = "acquire"
    /\ UNCHANGED extractor
    /\ args_files[i].form = "file"
    /\ file' = Name(args_files[i].id, "m4a")
    /\ pc' = "load"
    /\ last' = [NoCall EXCEPT !.pos = i, !.fn = "local", !.ret = "file",
                              !.skip_all = skip_all,
                              !.use_existing_all = use_existing_all,
                              !.on_disk = Name(args_files[i].id, "m4a") \in files]
    /\ stats' = [stats EXCEPT !.total_videos = @ + 1]
    /\ UNCHANGED <<ledger, files, first_file, raw, focus_idx, urls, log_precheck_results,
                   file_precheck_results, process_logged_missing, args_files,
                   processing_batch, skip_all, use_existing_all, i, audio, todo, idx,
                   exit_code, exited_at, prompts, ledger0, files0, failed_urls>>

(***************************************************************************)
(* Event extraction (lines 656-704): what print_timestamps writes for the  *)
(* column of one frame.  A confidence is kept                              *)
(* as the decimal it was rounded from, in thousandths; how the binary      *)
(* value compares with threshold / 100 and what int(score * 100) gives     *)
(* depend on the dtype of the column and on NumPy's promotion of Python    *)
(* scalars, which is numerics.                                             *)
(***************************************************************************)
MaxFrames == 3
MaxPrecision == 3

Confidences == {290, 530, 950}
Thresholds == {29, 53, 95}
\* a float64 column; a float32 column, Python scalars promoted to float64
\* (NumPy 1); a float32 column, Python scalars taken as float32 (NumPy 2)
Numerics == {"float64", "float32_legacy", "float32_weak"}
Columns == SeqsUpTo(Confidences, MaxFrames) \ {<< >>}

\* line 1220, ort_session.run: the columns framewise_output[0][:, focus_idx]
\* can be for a chunk of asset f.  The audio of AnyAudio is not fixed, every
\* column can come out of it; the other assets have the audio that gives
\* 0.29, 0.95, 0.53 for every chunk and class.
framewise_output(f) == IF f = AnyAudio THEN Columns ELSE {<<290, 950, 530>>}

\* ndarray.max() of a non-empty slice
max(row) == CHOOSE m \in {row[k] : k \in DOMAIN row} : \A k \in DOMAIN row : row[k] <= m

\* a slip of lines 670-673: the residual frame is dropped
subsample_NoResidual(frame, scale_factor) ==
    LET full == (Len(frame) - (Len(frame) % scale_factor)) \div scale_factor
    IN [k \in 1..full |-> max(SubSeq(frame, (k - 1) * scale_factor + 1, k * scale_factor))]

\* lines 663-675: the frame cut to a multiple of scale_factor and reshaped into
\* rows of scale_factor, the maximum of each row, then the maximum of the rest
subsample(frame, scale_factor) ==
    LET residual == Len(frame) % scale_factor
        cut == SubSeq(frame, 1, Len(frame) - residual)
        subframe == [k \in 1..(Len(cut) \div scale_factor) |->
                        SubSeq(cut, (k - 1) * scale_factor + 1, k * scale_factor)]
        subframe_mean == [k \in DOMAIN subframe |-> max(subframe[k])]
    IN IF residual # 0
       THEN Append(subframe_mean, max(SubSeq(frame, Len(frame) - residual + 1, Len(frame))))
       ELSE subframe_mean

\* lines 656-660, on whole seconds: hours, minutes, seconds
seconds_to_hms(seconds) ==
    <<seconds \div 3600, (seconds % 3600) \div 60, (seconds % 3600) % 60>>

\* line 698, subsampled_scores[i] >= actual_threshold.  A float32 score against
\* the float64 threshold / 100: float32(0.29), float32(0.53) and float32(0.95)
\* lie below 0.29, 0.53 and 0.95.  Otherwise both sides are rounded alike.
Float32Below == {290, 530, 950}

at_least(num, score, thr) ==
    IF num = "float32_legacy" /\ score \in Float32Below
    THEN score > thr * 10
    ELSE score >= thr * 10

\* the scores s for which int(s * 100) is one less than the decimal's percent:
\* 0.29 * 100 is 28.999999999999996 in float64; float32(0.29), float32(0.53) and
\* float32(0.95) times 100 are 28.99999917, 52.99999714 and 94.99999881 in
\* float64; in float32 the first and the last round to 29.0 and 95.0
TruncatedDown(num) ==
    CASE num = "float64" -> {290}
      [] num = "float32_legacy" -> {290, 530, 950}
      [] OTHER -> {530}

\* line 680, int(scores[i] * 100)
percent(num, score) ==
    IF score \in TruncatedDown(num) THEN (score \div 10) - 1 ELSE score \div 10

\* lines 677-687: the lines written for the windows of top (0-based), up to the
\* first one whose percent is below the threshold
RECURSIVE print_results(_, _, _, _, _, _)
print_results(scores, prec, off, top, thr, num) ==
    IF top = << >> THEN << >>
    ELSE LET w == Head(top)
             score == percent(num, scores[w + 1])
         IN IF score >= thr
            THEN <<[window |-> w,
                    seconds100 |-> w * prec + off * 100,
                    at |-> seconds_to_hms((w * prec) \div 100 + off),
                    score |-> score]>>
                 \o print_results(scores, prec, off, Tail(top), thr, num)
            ELSE << >>

\* lines 689-704: all window indices in ascending order, those at or above the
\* threshold kept, and nothing written when none is
print_timestamps(column, prec, thr, off, num) ==
    LET scores == subsample(column, prec)
        sorted_confidence == [k \in 1..Len(scores) |-> k - 1]
        filtered_indices == SelectSeq(sorted_confidence,
                                      LAMBDA w : at_least(num, scores[w + 1], thr))
    IN IF filtered_indices = << >> THEN << >>
       ELSE print_results(scores, prec, off, filtered_indices, thr, num)

\* the lines of one frame, marked with the index of the chunk they came from
OfChunk(lines, k) ==
    [n \in DOMAIN lines |->
        [chunk |-> k, window |-> lines[n].window, seconds100 |-> lines[n].seconds100,
         at |-> lines[n].at, score |-> lines[n].score]]

\* a slip of line 1211: offset carried over from the previous class pass
offset_at_Carried(k, off) == off

\* line 1211 and line 1222: offset is 0 before the first chunk of a pass and
\* grows by the seconds of every chunk classified
offset_at(k, off) == IF k = 0 THEN 0 ELSE off

\* line 1213: a pass starts a new header, the lines of the pass before are no
\* longer under the current one
header_at(k, lines) == IF k = 0 THEN << >> ELSE lines

(***************************************************************************)
(* Decoding and inference (lines 1191-1230)                                *)
(***************************************************************************)
\* load_audio: the codec yields the samples of the file, or none (RuntimeError,
\* not caught by the loop), as it does for a path with no file behind it.
\* load_audio(None) fails in subprocess.Popen with a TypeError, not caught
\* either.
LoadAudio ==
    /\ pc = "load"
    /\ UNCHANGED extractor
    /\ \E decoded \in BOOLEAN :
         IF file = NoFile
         THEN /\ Exit(1, "crash")
              /\ UNCHANGED <<audio, todo, idx>>
         ELSE IF ~decoded \/ file \notin files
         THEN /\ Exit(1, "decode")
              /\ UNCHANGED <<audio, todo, idx>>
         ELSE /\ audio' = AudioLenOf(file.id)
              /\ todo' = focus_idx_values(focus_idx)
              /\ idx' = 0
              /\ pc' = "pass"
              /\ UNCHANGED <<exit_code, exited_at>>
    /\ UNCHANGED <<ledger, files, first_file, raw, focus_idx, urls, log_precheck_results,
                   file_precheck_results, process_logged_missing, args_files,
                   processing_batch, skip_all, use_existing_all, i, file,
                   prompts, last, stats, ledger0, files0, failed_urls>>

\* a slip of lines 1215-1226: the row written before the chunks are classified
PassComplete_AtOnce(k, len) == TRUE

\* lines 1215-1217: the chunk loop ends when chunker is exhausted or at the break
PassComplete(k, len) == k >= Len(chunker(len, batch_size)) \/ k >= total_chunks(len)

\* lines 1215-1224, one turn of the chunk loop: the chunk goes through the
\* classifier, print_timestamps writes the detections of its column under the
\* header of the pass, offset grows by the chunk's seconds (every chunk
\* classified here is whole seconds long).  An exception of the classifier is
\* not caught and ends the run.  The first turn of a pass comes after lines
\* 1211-1213: offset is 0 and the header is new, whatever the classifier does.
Frame ==
    /\ pc = "pass"
    /\ todo # << >>
    /\ ~PassComplete(idx, audio)
    /\ \E ok \in BOOLEAN :
         IF ok
         THEN /\ \E column \in framewise_output(file.id) :
                   /\ focus' = column
                   /\ subsampled_scores' = subsample(column, precision)
                   /\ emitted' = header_at(idx, emitted)
                                   \o OfChunk(print_timestamps(column, precision, threshold,
                                                               offset_at(idx, offset), numerics),
                                              idx)
              /\ offset' = offset_at(idx, offset)
                             + (chunker(audio, batch_size)[idx + 1] \div sample_rate)
              /\ idx' = idx + 1
              /\ stats' = [stats EXCEPT !.infer = @ + 1]
              /\ UNCHANGED <<pc, exit_code, exited_at>>
         ELSE /\ offset' = offset_at(idx, offset)
              /\ emitted' = header_at(idx, emitted)
              /\ Exit(1, "infer")
              /\ UNCHANGED <<idx, stats, focus, subsampled_scores>>
    /\ UNCHANGED <<ledger, files, first_file, raw, focus_idx, urls, log_precheck_results,
                   file_precheck_results, process_logged_missing, args_files,
                   processing_batch, skip_all, use_existing_all, i, file, audio, todo,
                   prompts, last, ledger0, files0, failed_urls,
                   precision, threshold, numerics>>

\* line 1226: the pass of one focus_idx is over, log_inference; after the last
\* class the loop moves on.  A pass without chunks is this step alone, lines
\* 1211-1213 included: offset is 0 and nothing is under its header.
ClassPass ==
    /\ pc = "pass"
    /\ offset' = offset_at(idx, offset)
    /\ emitted' = header_at(idx, emitted)
    /\ UNCHANGED <<focus, precision, threshold, subsampled_scores, numerics>>
    /\ todo # << >>
    /\ PassComplete(idx, audio)
    /\ ledger' = log_inference(ledger, ReplaceShorts(args_files[i]), Head(todo))
    /\ todo' = Tail(todo)
    /\ idx' = 0
    /\ IF Tail(todo) = << >>
       THEN file' = NoFile /\ audio' = 0 /\ Continue(i + 1, args_files)
       ELSE UNCHANGED <<file, audio, pc, i, exit_code, exited_at>>
    /\ UNCHANGED <<files, first_file, raw, focus_idx, urls, log_precheck_results,
                   file_precheck_results, process_logged_missing, args_files,
                   processing_batch, skip_all, use_existing_all,
                   prompts, last, stats, ledger0, files0, failed_urls>>

\* lines 1247-1259: the answer to "Retry failed downloads? (Y/N)".  On "y" the
\* URL list of the account is replaced with the failed URLs, the file of failed
\* URLs removed and the main loop run again (rerun_main): arguments parsed, the
\* counters reset (lines 743-747), the saved URL list read (lines 765-768),
\* skip_all cleared (line 1148).  Any other answer ends the run.
RetryFailed ==
    /\ pc = "retry"
    /\ UNCHANGED extractor
    /\ \E retry \in Answers :
         /\ prompts' = [prompts EXCEPT !.retry = Append(@, retry)]
         /\ IF retry = "y"
            THEN /\ raw' = failed_urls
                 /\ failed_urls' = << >>
                 /\ args_files' = failed_urls
                 /\ skip_all' = FALSE
                 /\ stats' = [stats EXCEPT !.total_videos = 0]
                 /\ Continue(1, failed_urls)
            ELSE /\ Exit(0, "end")
                 /\ UNCHANGED <<raw, failed_urls, args_files, skip_all, stats, i>>
    /\ UNCHANGED <<ledger, files, first_file, focus_idx, urls, log_precheck_results,
                   file_precheck_results, process_logged_missing, processing_batch,
                   use_existing_all, file, audio, todo, idx, last, ledger0, files0>>

Next ==
    \/ ResolveEmpty
    \/ SingleStart
    \/ TiktokAccountStart
    \/ ReconcileFullySatisfied
    \/ ReconcileFourWay
    \/ ReconcilePassThrough
    \/ DownloadAudio
    \/ DownloadTiktok
    \/ DownloadTwitch
    \/ DownloadSoop
    \/ LocalFile
    \/ LoadAudio
    \/ Frame
    \/ ClassPass
    \/ RetryFailed

Spec == Init /\ [][Next]_vars

\* a single reference to a video of any audio, whose cached asset has just been
\* decoded (line 1194): the state LoadAudio leaves, with the arguments of the
\* extraction drawn
InitExtract ==
    /\ ledger = << >>
    /\ files = {Name(AnyAudio, "m4a")}
    /\ first_file = "url"
    /\ raw = <<Ref(AnyAudio, "watch")>>
    /\ focus_idx = 0
    /\ pc = "pass"
    /\ urls = << >>
    /\ log_precheck_results = << >>
    /\ file_precheck_results = << >>
    /\ process_logged_missing = "undef"
    /\ args_files = raw
    /\ processing_batch = FALSE
    /\ skip_all = FALSE
    /\ use_existing_all = TRUE
    /\ i = 1
    /\ file = Name(AnyAudio, "m4a")
    /\ audio = AudioLenOf(file.id)
    /\ todo = focus_idx_values(focus_idx)
    /\ idx = 0
    /\ exit_code = -1
    /\ exited_at = ""
    /\ prompts = [rerun_all |-> << >>, four_way |-> << >>, retry |-> << >>]
    /\ last = [skip_all |-> FALSE, use_existing_all |-> FALSE,
               prompts |-> {"use_existing"}, pos |-> 1, fn |-> "download_audio",
               branch |-> "REUSE_EXISTING", answer |-> "a", ret |-> "file",
               removed |-> FALSE, meta |-> 1, download |-> 0, logged |-> FALSE,
               existing |-> file, on_disk |-> TRUE]
    /\ stats = [meta |-> 1, download |-> 0, infer |-> 0, total_videos |-> 1]
    /\ ledger0 = ledger
    /\ files0 = files
    /\ failed_urls = << >>
    /\ focus = << >>
    /\ precision \in 1..MaxPrecision
    /\ threshold \in Thresholds
    /\ offset = 0
    /\ subsampled_scores = << >>
    /\ emitted = << >>
    /\ numerics \in Numerics

\* lines 1210-1226: both class passes over that asset
NextExtract ==
    \/ Frame
    \/ ClassPass

SpecExtract == InitExtract /\ [][NextExtract]_vars

(***************************************************************************)
(* Vocabulary of the properties                                            *)
(***************************************************************************)
\* the run went through a batch branch and its filter loop has run
Filtered == pc # "start" /\ Reconciles(first_file) /\ exited_at \notin {"resolve", "reconcile"}

\* a batch branch has taken its decision (possibly ending the run)
Decided == pc # "start" /\ Reconciles(first_file) /\ exited_at # "resolve"

\* lines 871-872: logged / cached as the snapshots of the run say
log_entry_exists(u) == SplitWatch(u) \in DOMAIN log_precheck_results
file_exists(u) == SplitWatch(u) \in DOMAIN file_precheck_results

\* the policy of the run: the re-run-all answer or the four-way answer
BatchPolicy ==
    IF prompts.rerun_all # << >> /\ RerunAll(prompts.rerun_all[1]) THEN "PROCESS_ALL"
    ELSE CASE process_logged_missing = "all" -> "PROCESS_ALL"
           [] process_logged_missing = "False" -> "SKIP_LOGGED_PROCESS_NEW"
           [] process_logged_missing = "True" -> "REDOWNLOAD_LOGGED_MISSING"
           [] OTHER -> "NONE"

\* the disposition table of the design, section 4.2
SpecTable(P, logged, cached) ==
    CASE logged /\ cached ->
           (CASE P = "PROCESS_ALL" -> "REINFER_EXISTING"
              [] P = "NONE" -> "REUSE_EXISTING"
              [] OTHER -> "SKIP")
      [] logged /\ ~cached ->
           (IF P = "SKIP_LOGGED_PROCESS_NEW" THEN "SKIP" ELSE "REDOWNLOAD_MISSING")
      [] ~logged /\ cached -> "REUSE_EXISTING"
      [] OTHER -> "DOWNLOAD_NEW"

\* the same table with the one cell the filter loop decides differently
AmendedTable(P, logged, cached) ==
    IF P = "REDOWNLOAD_LOGGED_MISSING" /\ ~logged /\ ~cached
    THEN "SKIP"
    ELSE SpecTable(P, logged, cached)

\* the reference the latest download_audio call was about
LastUrl == args_files[last.pos]
\* that call got past the metadata lookup
Handled == last.fn = "download_audio" /\ last.branch # "META_FAILED"
NothingProcessed ==
    /\ stats = [meta |-> 0, download |-> 0, infer |-> 0, total_videos |-> 0]
    /\ ledger = ledger0
    /\ files = files0

(***************************************************************************)
(* C1: an unlogged reference is selected by the filter, whatever the       *)
(* policy (REUSE_EXISTING when cached, DOWNLOAD_NEW when not), never SKIP. *)
(***************************************************************************)
\* C1 as stated: every unlogged reference of urls is selected
C1_Original ==
    Filtered =>
      \A u \in Range(urls) : ~log_entry_exists(u) => u \in Range(args_files)

\* C1 amended: under PROCESS_ALL, SKIP_LOGGED_PROCESS_NEW and no policy every
\* unlogged reference is selected; under REDOWNLOAD_LOGGED_MISSING an unlogged
\* reference is selected exactly when it is cached.
C1_UnloggedSelected ==
    Filtered =>
      \A u \in Range(urls) :
        ~log_entry_exists(u) =>
          (u \in Range(args_files)
             <=> (BatchPolicy # "REDOWNLOAD_LOGGED_MISSING" \/ file_exists(u)))

C1_Witness ==
    /\ Filtered
    /\ BatchPolicy = "REDOWNLOAD_LOGGED_MISSING"
    /\ args_files # << >>
    /\ \E u \in Range(urls) :
         ~log_entry_exists(u) /\ ~file_exists(u) /\ u \notin Range(args_files)

(***************************************************************************)
(* C2: the disposition of a logged reference follows the two "logged" rows *)
(* of the table: skipped by the filter where the table says SKIP, and      *)
(* otherwise taken by download_audio through the branch the table names.   *)
(***************************************************************************)
C2_LoggedRows ==
    /\ Filtered =>
         \A u \in Range(urls) :
           log_entry_exists(u) =>
             (u \notin Range(args_files)
                <=> SpecTable(BatchPolicy, TRUE, file_exists(u)) = "SKIP")
    /\ (Filtered /\ Handled /\ log_entry_exists(LastUrl)) =>
         last.branch = SpecTable(BatchPolicy, TRUE, file_exists(LastUrl))

(***************************************************************************)
(* C3: every reference of urls gets exactly one disposition, the one the   *)
(* table gives for the policy of the batch: the list handed to the loop is *)
(* urls without the references the table marks SKIP.                       *)
(***************************************************************************)
\* C3 as stated, with the table of the design
C3_Original ==
    Filtered =>
      args_files = SelectSeq(urls, LAMBDA u :
                     SpecTable(BatchPolicy, log_entry_exists(u), file_exists(u)) # "SKIP")

\* C3 amended: the table with (REDOWNLOAD_LOGGED_MISSING, not logged, not
\* cached) giving SKIP
C3_Totality ==
    Filtered =>
      args_files = SelectSeq(urls, LAMBDA u :
                     AmendedTable(BatchPolicy, log_entry_exists(u), file_exists(u)) # "SKIP")

C3_Witness ==
    /\ Filtered
    /\ Len(urls) = 2
    /\ Len(args_files) = 1
    /\ BatchPolicy = "REDOWNLOAD_LOGGED_MISSING"
    /\ \E u \in Range(urls) : log_entry_exists(u) /\ file_exists(u)

(***************************************************************************)
(* C4: when every reference of the batch is logged and cached, only the    *)
(* yes/no re-run question is asked, and yes means PROCESS_ALL.             *)
(***************************************************************************)
C4_FullySatisfiedPrompt ==
    (Decided /\ \A u \in Range(urls) : log_entry_exists(u) /\ file_exists(u)) =>
      /\ prompts.four_way = << >>
      /\ Len(prompts.rerun_all) = 1
      /\ prompts.rerun_all[1] = "y" => (Filtered /\ args_files = urls)

(***************************************************************************)
(* C5: fully satisfied and any answer but yes: exit code 0, nothing        *)
(* fetched, classified or appended.                                        *)
(***************************************************************************)
C5_DeclinedRerun ==
    (prompts.rerun_all # << >> /\ prompts.rerun_all[1] # "y") =>
      /\ pc = "done"
      /\ exit_code = 0
      /\ NothingProcessed

C5_Witness ==
    /\ prompts.rerun_all = <<"x">>
    /\ pc = "done"
    /\ Len(urls) = 2

(***************************************************************************)
(* C6: the four-way choice is shown once, exactly when some reference is   *)
(* logged, an inconsistency exists and the batch is not fully satisfied.   *)
(***************************************************************************)
C6_loggedButMissing == Cardinality({u \in Range(urls) : log_entry_exists(u) /\ ~file_exists(u)})
C6_cachedButNotLogged == Cardinality({u \in Range(urls) : file_exists(u) /\ ~log_entry_exists(u)})
C6_toProcess ==
    Max(Cardinality(Range(urls)) - Cardinality({u \in Range(urls) : log_entry_exists(u)}), 0)

C6_FourWayExactly ==
    Decided =>
      /\ Len(prompts.four_way) <= 1
      /\ Len(prompts.four_way) = 1 <=>
           /\ \E u \in Range(urls) : log_entry_exists(u)
           /\ \/ C6_loggedButMissing > 0
              \/ C6_cachedButNotLogged > 0
              \/ C6_toProcess # Cardinality(Range(urls))
           /\ ~(\A u \in Range(urls) : log_entry_exists(u) /\ file_exists(u))

(***************************************************************************)
(* C7: an invalid answer to the four-way choice selects exactly what the   *)
(* explicit SKIP_LOGGED_PROCESS_NEW answer selects: the unlogged ones.     *)
(***************************************************************************)
C7_InvalidDefaults ==
    (Filtered /\ prompts.four_way # << >> /\ prompts.four_way[1] \in {"x", "n"}) =>
      /\ BatchPolicy = "SKIP_LOGGED_PROCESS_NEW"
      /\ args_files = SelectSeq(urls, LAMBDA u : ~log_entry_exists(u))

C7_Witness ==
    /\ Filtered
    /\ prompts.four_way = <<"x">>
    /\ Len(args_files) = 1
    /\ Len(urls) = 2

(***************************************************************************)
(* C8: REDOWNLOAD_LOGGED_MISSING with nothing logged-but-missing, or       *)
(* SKIP_LOGGED_PROCESS_NEW with no unlogged reference, ends the run at the *)
(* prompt, before the loop, with nothing processed.                        *)
(***************************************************************************)
C8_NoOpChoiceExits ==
    (/\ Decided
     /\ prompts.four_way # << >>
     /\ \/ /\ prompts.four_way[1] = "y"
           /\ ~\E u \in Range(urls) : log_entry_exists(u) /\ ~file_exists(u)
        \/ /\ prompts.four_way[1] = "n"
           /\ \A u \in Range(urls) : log_entry_exists(u))
    => (exited_at = "reconcile" /\ exit_code = 0 /\ NothingProcessed)

(***************************************************************************)
(* C9: nothing logged: no batch prompt, every reference passed through;    *)
(* with an empty ledger and no files every reference is a new download.    *)
(***************************************************************************)
C9_PassThrough ==
    (Decided /\ \A u \in Range(urls) : ~log_entry_exists(u)) =>
      /\ prompts = [rerun_all |-> << >>, four_way |-> << >>, retry |-> << >>]
      /\ Filtered
      /\ args_files = urls
      /\ (ledger0 = << >> /\ files0 = {}) =>
           /\ \A u \in Range(urls) : ~log_entry_exists(u) /\ ~file_exists(u)
           /\ (processing_batch /\ Handled) => last.branch = "DOWNLOAD_NEW"

C9_Witness ==
    /\ Decided
    /\ ledger0 = << >>
    /\ files0 = {}
    /\ processing_batch
    /\ Len(urls) = 2
    /\ last.pos = 2
    /\ last.branch = "DOWNLOAD_NEW"
    /\ last.ret = "file"

(***************************************************************************)
(* C10: under PROCESS_ALL a logged and cached reference is re-inferred on  *)
(* its cached file without the per-reference re-run question.              *)
(***************************************************************************)
C10_NoRerunPrompt ==
    (/\ Filtered
     /\ BatchPolicy = "PROCESS_ALL"
     /\ Handled
     /\ log_entry_exists(LastUrl)
     /\ file_exists(LastUrl))
    => /\ "rerun_inference" \notin last.prompts
       /\ last.ret = "file"
       /\ ~last.removed
       /\ last.download = 0

(***************************************************************************)
(* C11: use_existing_all is false until 'a' is answered at the "use the    *)
(* existing file?" question, is set by nothing else, never goes back to    *)
(* false, and once set every later call that finds a file with nothing     *)
(* logged returns that file without asking.                                *)
(***************************************************************************)
C11_UseExistingAll ==
    /\ [](/\ last.pos = 0 => ~use_existing_all
          /\ (/\ last.fn = "download_audio"
              /\ last.use_existing_all
              /\ last.existing # NoFile
              /\ ~last.logged)
             => /\ last.prompts = {}
                /\ last.ret = "file"
                /\ last.download = 0
                /\ ~last.removed
                /\ pc = "load" => file = last.existing)
    /\ [][/\ use_existing_all => use_existing_all'
          /\ (~use_existing_all /\ use_existing_all')
               => ("use_existing" \in last'.prompts /\ last'.answer = "a")]_vars

C11_Witness ==
    /\ last.fn = "download_audio"
    /\ last.pos = 2
    /\ last.use_existing_all
    /\ last.existing # NoFile
    /\ ~last.logged
    /\ last.ret = "file"

(***************************************************************************)
(* C12: skip_all is false when the loop starts, is set only by the answer  *)
(* 'a' to the "run inference again?" question (which skips the reference   *)
(* it was asked about), never goes back to false, and once set every later *)
(* call that finds a file and a logged class skips without asking.         *)
(***************************************************************************)
C12_SkipAll ==
    /\ [](/\ last.pos = 0 => ~skip_all
          /\ (/\ last.fn = "download_audio"
              /\ last.skip_all
              /\ last.existing # NoFile
              /\ last.logged)
             => /\ last.prompts = {}
                /\ last.ret = "none"
                /\ last.download = 0
                /\ ~last.removed)
    /\ [][/\ skip_all => skip_all'
          /\ (~skip_all /\ skip_all')
               => /\ "rerun_inference" \in last'.prompts
                  /\ last'.answer = "a"
                  /\ last'.ret = "none"
                  /\ ledger' = ledger]_vars

C12_Witness ==
    /\ last.fn = "download_audio"
    /\ last.pos = 2
    /\ last.skip_all
    /\ last.existing # NoFile
    /\ last.logged
    /\ last.ret = "none"

(***************************************************************************)
(* C13: a reference whose file is missing (logged: REDOWNLOAD_MISSING, not *)
(* logged: DOWNLOAD_NEW) goes straight to the download, with no question   *)
(* asked about it, under every policy of the batch.                        *)
(***************************************************************************)
C13_DirectFetch ==
    (/\ Filtered
     /\ last.fn = "download_audio"
     /\ last.branch \in {"REDOWNLOAD_MISSING", "DOWNLOAD_NEW"})
    => /\ last.prompts = {}
       /\ last.download = 1

(***************************************************************************)
(* C14: when the metadata lookup or the download of a reference fails, a   *)
(* batch run records the reference in the retry list and goes on with the  *)
(* next reference; a run over a single reference ends.                     *)
(***************************************************************************)
\* the latest acquisition call lost its reference to a Fetcher failure
C14_FetchFailed ==
    /\ last.pos > 0
    /\ \/ last.branch = "META_FAILED"
       \/ last.download = 1 /\ last.ret # "file"

C14_FetchFailure ==
    /\ (processing_batch /\ C14_FetchFailed) =>
         /\ LastUrl \in Range(failed_urls)
         /\ exited_at # "crash"
    /\ (first_file = "url" /\ Len(args_files) = 1 /\ C14_FetchFailed) =>
         (file = NoFile /\ pc \in {"load", "done"})

(***************************************************************************)
(* C15: whatever the source, an acquisition that returns (None, None) is a *)
(* skip: no decode, no inference, no ledger row, no error; the loop moves  *)
(* to the next reference.                                                  *)
(***************************************************************************)
C15_NoneIsSkip ==
    (last.pos > 0 /\ last.ret = "none") =>
      /\ file = NoFile
      /\ i = last.pos + 1
      /\ pc \in {"acquire", "done"}
      /\ exited_at \in {"", "end"}

(***************************************************************************)
(* C16: a file that decodes to no samples costs only its own reference: a  *)
(* batch run does not end there while references remain.                   *)
(***************************************************************************)
C16_DecodeFailureLocal ==
    (processing_batch /\ exited_at = "decode") => i = Len(args_files)

(***************************************************************************)
(* C17: a reference re-inferred on its cached file (REINFER_EXISTING) gets *)
(* the path of that file back without any call to the Fetcher.             *)
(***************************************************************************)
\* C17 as stated: neither a metadata lookup nor a download
C17_Original ==
    last.branch = "REINFER_EXISTING" => (last.meta = 0 /\ last.download = 0)

\* C17 amended: the metadata lookup that opens download_audio is made, and
\* then the cached file is returned with no download, no removal, no question
C17_ReinferNoDownload ==
    last.branch = "REINFER_EXISTING" =>
      /\ last.meta = 1
      /\ last.download = 0
      /\ ~last.removed
      /\ last.prompts = {}
      /\ last.ret = "file"
      /\ last.existing # NoFile
      /\ pc = "load" => file = last.existing

C17_Witness ==
    /\ last.branch = "REINFER_EXISTING"
    /\ last.pos = 2
    /\ pc = "load"
    /\ file = last.existing
    /\ stats.meta = 2
    /\ stats.download = 0

(***************************************************************************)
(* C18: answering 'n' (re-download) to the "use the existing file?"        *)
(* question deletes the existing file and then downloads the same          *)
(* reference anew: the file is removed, one download is made, and a        *)
(* successful download hands a file of that video, on disk, to inference.  *)
(***************************************************************************)
C18_RedownloadReplaces ==
    (/\ last.fn = "download_audio"
     /\ "use_existing" \in last.prompts
     /\ last.answer = "n")
    => /\ last.removed
       /\ last.download = 1
       /\ last.prompts = {"use_existing"}
       /\ (last.ret = "file" /\ pc = "load") =>
            (file \in files /\ file.id = LastUrl.id)

(***************************************************************************)
(* C19: the ledger only grows: every step leaves the rows already written  *)
(* where they are, and the ledger of a run always begins with the ledger   *)
(* the run started from.                                                   *)
(***************************************************************************)
C19_IsPrefix(s, t) == Len(s) <= Len(t) /\ SubSeq(t, 1, Len(s)) = s

C19_AppendOnly ==
    /\ [](C19_IsPrefix(ledger0, ledger))
    /\ [][C19_IsPrefix(ledger, ledger')]_vars

C19_Witness ==
    /\ Len(ledger0) = 2
    /\ Len(ledger) = Len(ledger0) + 4
    /\ C19_IsPrefix(ledger0, ledger)

(***************************************************************************)
(* C20: an inference that completes for a reference leaves exactly one     *)
(* ledger row per configured class for it, whatever the source of the      *)
(* reference: while the passes run the ledger ends with the rows of the    *)
(* classes already passed, and the step that completes the inference       *)
(* appends the row of the last class.                                      *)
(***************************************************************************)
\* the rows a completed inference of reference u is to leave
C20_Rows(u) ==
    [k \in DOMAIN focus_idx_values(focus_idx) |->
       [url |-> ReplaceShorts(u), code |-> focus_idx_values(focus_idx)[k]]]

C20_OneEntryPerClass ==
    /\ [](pc = "pass" =>
            LET passed == Len(focus_idx_values(focus_idx)) - Len(todo)
            IN /\ passed <= Len(ledger) - Len(ledger0)
               /\ SubSeq(ledger, Len(ledger) - passed + 1, Len(ledger))
                    = SubSeq(C20_Rows(args_files[i]), 1, passed))
    /\ [][(pc = "pass" /\ pc' # "pass" /\ exited_at' # "infer") =>
            /\ Len(todo) = 1
            /\ ledger' = Append(ledger, C20_Rows(args_files[i])[Len(C20_Rows(args_files[i]))])]_vars

(***************************************************************************)
(* C21: a ledger row for (reference, class) is written only once every     *)
(* chunk of that class's pass has been classified, and no pass of a        *)
(* reference is left pending when the next acquisition begins; so wherever *)
(* the run stops, each row added stands for a completed pass.              *)
(***************************************************************************)
C21_EntryAfterPass ==
    /\ [][ledger' # ledger =>
            /\ pc = "pass"
            /\ idx = total_chunks(audio)
            /\ ledger' = Append(ledger, [url |-> ReplaceShorts(args_files[i]),
                                         code |-> Head(todo)])]_vars
    /\ [](pc \in {"acquire", "load"} => (todo = << >> /\ idx = 0))
    /\ [](exited_at = "infer" =>
            /\ idx < total_chunks(audio)
            /\ \A k \in (Len(ledger0) + 1)..Len(ledger) :
                 ~(ledger[k].url = ReplaceShorts(args_files[i]) /\ ledger[k].code = Head(todo))
                   \/ \E p \in 1..(i - 1) : args_files[p] = args_files[i])

C21_Witness ==
    /\ exited_at = "infer"
    /\ idx = 1
    /\ Len(todo) = 1
    /\ Len(ledger) = Len(ledger0) + 1
    /\ ledger[Len(ledger)].code = FARTS

(***************************************************************************)
(* C22: in a run over a reconciled batch the ledger and the files are read *)
(* once, before the loop: the snapshots are those of the start of the run, *)
(* and what download_audio takes as logged and as existing file for a      *)
(* reference is what it would have taken at the start of the run, whatever *)
(* rows and files the loop has added since.                                *)
(***************************************************************************)
\* logged / existing file for u as download_audio computes them on the ledger
\* and the files of the start of the run
C22_ViewAtStart(u) ==
    LET video_id == InfoId(u)
        processed ==
            IF processing_batch
            THEN IF video_id \in DOMAIN precheck_log_for_urls(urls, ledger0)
                 THEN precheck_log_for_urls(urls, ledger0)[video_id] ELSE NotProcessed
            ELSE check_log(u, ledger0)
    IN [logged |-> processed.farts \/ processed.burps,
        existing |-> IF processing_batch
                     THEN IF video_id \in DOMAIN precheck_files_for_urls(urls, files0)
                          THEN precheck_files_for_urls(urls, files0)[video_id]
                          ELSE NoFile
                     ELSE ScanFiles(video_id, files0, possible_extensions)]

C22_SnapshotView ==
    Filtered =>
      /\ log_precheck_results = precheck_log_for_urls(urls, ledger0)
      /\ file_precheck_results = precheck_files_for_urls(urls, files0)
      /\ Handled =>
           /\ last.logged = C22_ViewAtStart(LastUrl).logged
           /\ last.existing = C22_ViewAtStart(LastUrl).existing

(***************************************************************************)
(* C23: once download_audio has removed the file of a video or downloaded  *)
(* a new one, a later lookup for that video in the same run sees the       *)
(* change: it never yields a file that is not on disk, and it yields the   *)
(* file that the run has created.                                          *)
(***************************************************************************)
C23_AssetRecordFresh ==
    Handled =>
      /\ last.existing # NoFile => last.on_disk
      /\ (last.on_disk /\ ~OnDisk(LastUrl.id, files0)) => last.existing # NoFile
      /\ (last.ret = "file" /\ pc = "load") => file \in files

(***************************************************************************)
(* C24: the list a batch source resolves to keeps the order of the source  *)
(* and holds every reference once, at the place of its first occurrence;   *)
(* so no reference is twice in urls nor in the list handed to the loop.    *)
(***************************************************************************)
\* s without the repeats of an element, each kept where it comes first
RECURSIVE C24_Dedup(_)
C24_Dedup(s) ==
    IF s = << >> THEN << >>
    ELSE LET front == C24_Dedup(SubSeq(s, 1, Len(s) - 1))
         IN IF s[Len(s)] \in Range(front) THEN front ELSE Append(front, s[Len(s)])

C24_ResolverDedup ==
    Decided =>
      /\ urls = C24_Dedup(ResolvedUrls(first_file, raw))
      /\ Filtered => \A p, q \in DOMAIN args_files :
                       args_files[p] = args_files[q] => p = q

(***************************************************************************)
(* C25: references that are variants of one video get one identifier, so   *)
(* the ledger lookup and the file lookup of reconciliation answer for the  *)
(* video, whatever the form of the reference in the batch and in the       *)
(* ledger.                                                                 *)
(***************************************************************************)
C25_IdentifierStable ==
    /\ \A u, v \in YouTubeRefs :
         u.id = v.id => SplitWatch(ReplaceShorts(u)) = SplitWatch(ReplaceShorts(v))
    /\ Decided =>
         \A u \in Range(urls) :
           /\ log_entry_exists(u) <=> \E k \in DOMAIN ledger0 : ledger0[k].url.id = u.id
           /\ file_exists(u) <=> OnDisk(u.id, files0)

(***************************************************************************)
(* C26: a batch source (list file, playlist, channel, TikTok account) that *)
(* yields no reference ends the run with exit code 1 before anything is    *)
(* done: no batch prompt, no lookup, no download, no inference, no row.    *)
(***************************************************************************)
C26_EmptySource ==
    (/\ pc # "start"
     /\ first_file # "url"
     /\ ResolvedUrls(first_file, raw) = << >>)
    => /\ pc = "done"
       /\ exited_at = "resolve"
       /\ exit_code = 1
       /\ prompts = [rerun_all |-> << >>, four_way |-> << >>, retry |-> << >>]
       /\ last = NoCall
       /\ NothingProcessed

C26_Witness ==
    /\ first_file = "txt"
    /\ Len(raw) = 2
    /\ exited_at = "resolve"
    /\ exit_code = 1

(***************************************************************************)
(* C27: a second run over the same batch, again with the skip-logged       *)
(* policy and nothing overridden, hands strictly fewer references to the   *)
(* loop than the first run did.  The second run's reconciliation is        *)
(* computed on the ledger and the files the first run ends with.           *)
(***************************************************************************)
\* what the reconciliation of a second run over urls hands to the loop when
\* the re-run question is declined and the four-way choice is answered 'n'
C27_SecondRun ==
    LET lg == precheck_log_for_urls(urls, ledger)
        fl == precheck_files_for_urls(urls, files)
    IN IF FullySatisfied(urls, lg, fl) THEN << >>
       ELSE IF Inconsistent(urls, lg, fl)
       THEN IF ExitsAtPrompt("n", urls, lg, fl) THEN << >>
            ELSE FilterUrls(urls, PolicyOf("n"), lg, fl)
       ELSE FilterUrls(urls, "None", lg, fl)

\* the first run: a batch run with the skip-logged policy (or no prompt at
\* all) that reached the end of its loop
C27_FirstRunOver ==
    /\ Filtered
    /\ exited_at = "end"
    /\ BatchPolicy \in {"SKIP_LOGGED_PROCESS_NEW", "NONE"}

\* the references whose inference the run completed
C27_Completed == {ledger[k].url : k \in (Len(ledger0) + 1)..Len(ledger)}

\* C27 as stated
C27_Original == C27_FirstRunOver => Len(C27_SecondRun) < Len(args_files)

\* C27 amended: the second run takes none of the references the first run
\* completed and never more than the first run took; strictly fewer whenever
\* the first run completed at least one
C27_Idempotence ==
    C27_FirstRunOver =>
      /\ Range(C27_SecondRun) \cap C27_Completed = {}
      /\ Len(C27_SecondRun) <= Len(args_files)
      /\ C27_Completed # {} => Len(C27_SecondRun) < Len(args_files)

C27_Witness ==
    /\ C27_FirstRunOver
    /\ BatchPolicy = "SKIP_LOGGED_PROCESS_NEW"
    /\ Len(urls) = 2
    /\ Len(args_files) = 1
    /\ C27_Completed # {}
    /\ C27_SecondRun = << >>

(***************************************************************************)
(* C28: the script ends with exit code 0 when it completes and whenever    *)
(* the user chooses to stop early; it ends with exit code 1 only when the  *)
(* source resolves to nothing or, outside batch mode, when acquisition,    *)
(* decoding or inference of the item fails.                                *)
(***************************************************************************)
C28_ExitCodes ==
    pc = "done" =>
      /\ exited_at \in {"end", "reconcile", "coordinator"} => exit_code = 0
      /\ exit_code = 1 =>
           \/ exited_at = "resolve"
           \/ exited_at \in {"decode", "crash", "infer"} /\ ~processing_batch

(***************************************************************************)
(* C29: the L decoded samples go to the classifier in consecutive chunks   *)
(* of batch_size samples; the last, shorter chunk is classified exactly    *)
(* when it holds at least sample_rate samples.  A completed pass has made  *)
(* floor(L / batch_size) + (1 if L mod batch_size >= sample_rate) calls.   *)
(***************************************************************************)
C29_Calls(L) == (L \div batch_size) + (IF (L % batch_size) >= sample_rate THEN 1 ELSE 0)

C29_FrameCount ==
    pc = "pass" =>
      /\ idx <= C29_Calls(audio)
      /\ PassComplete(idx, audio) => idx = C29_Calls(audio)
      /\ \A k \in 1..idx :
           /\ chunker(audio, batch_size)[k] = batch_size
                \/ (k = Len(chunker(audio, batch_size))
                      /\ chunker(audio, batch_size)[k] = audio % batch_size
                      /\ chunker(audio, batch_size)[k] >= sample_rate)
      /\ (PassComplete(idx, audio) /\ idx < Len(chunker(audio, batch_size))) =>
           chunker(audio, batch_size)[idx + 1] < sample_rate

C29_Witness ==
    /\ pc = "pass"
    /\ audio = 991999
    /\ Len(chunker(audio, batch_size)) = 2
    /\ idx = 1
    /\ PassComplete(idx, audio)

\* C30: max-pooling a confidence column of length L with precision P gives
\* exactly ceil(L / P) windows, and window k (from 0) holds the maximum of the
\* elements k*P .. min((k+1)*P, L) - 1, the last, shorter window included.
C30_Window(k) ==
    LET hi == IF (k + 1) * precision < Len(focus) THEN (k + 1) * precision
              ELSE Len(focus)
    IN {focus[j + 1] : j \in (k * precision)..(hi - 1)}

C30_Pooling ==
    focus # << >> =>
        /\ Len(subsampled_scores) = (Len(focus) + precision - 1) \div precision
        /\ \A k \in 0..(Len(subsampled_scores) - 1) :
              /\ subsampled_scores[k + 1] \in C30_Window(k)
              /\ \A x \in C30_Window(k) : x <= subsampled_scores[k + 1]

\* a column that ends in a shorter window whose maximum is the column's own
C30_Witness ==
    /\ focus # << >>
    /\ Len(focus) > precision
    /\ Len(focus) % precision # 0
    /\ Len(subsampled_scores) >= 2
    /\ \A k \in 1..(Len(subsampled_scores) - 1) :
          subsampled_scores[k] < subsampled_scores[Len(subsampled_scores)]

\* the window w (from 0) of the frame in hand has a line among the emitted ones
Emitted(w) ==
    \E n \in DOMAIN emitted : emitted[n].chunk = idx - 1 /\ emitted[n].window = w

\* C31: a pooled window is emitted if and only if its confidence as a percentage
\* is at least the threshold, whatever the other windows of the frame hold.  A
\* confidence that is the threshold's own decimal is left out, its binary value
\* being above or below it: every window above the threshold is emitted and no
\* window below it is.
C31_EmitsIffAtThreshold ==
    (idx > 0 /\ focus # << >>) =>
        \A w \in 0..(Len(subsampled_scores) - 1) :
            /\ subsampled_scores[w + 1] > threshold * 10 => Emitted(w)
            /\ subsampled_scores[w + 1] < threshold * 10 => ~Emitted(w)

\* the offset print_timestamps was given for the frame in hand
FrameOffset == offset - (chunker(audio, batch_size)[idx] \div sample_rate)

\* the lines written for the frame in hand
FrameLines == SelectSeq(emitted, LAMBDA e : e.chunk = idx - 1)

\* C32: for a fixed confidence matrix, precision and offset, raising the
\* threshold never increases the number of detections, and the detections at
\* the higher threshold are among those at the lower one.
C32_ThresholdMonotone ==
    (idx > 0 /\ focus # << >>) =>
        \A hi \in Thresholds :
            hi > threshold =>
                LET high == print_timestamps(focus, precision, hi, FrameOffset, numerics)
                IN /\ Len(high) <= Len(FrameLines)
                   /\ \A n \in DOMAIN high :
                         \E m \in DOMAIN FrameLines :
                             /\ FrameLines[m].window = high[n].window
                             /\ FrameLines[m].at = high[n].at
                             /\ FrameLines[m].score = high[n].score

\* the seconds of audio in the chunks before chunk k of a pass, all of them full
SecondsBefore(k) == k * (batch_size \div sample_rate)

\* C33: within one class pass the detections are emitted in ascending timestamp
\* order across all frames, each timestamp being offset + window * precision / 100
\* with offset 0 at the start of the pass and then the duration of the frames
\* already classified (timestamps in hundredths of a second; the printed
\* HH:MM:SS is the timestamp's whole seconds).
C33_AscendingTimestamps ==
    /\ \A n \in DOMAIN emitted :
          /\ emitted[n].seconds100
                = SecondsBefore(emitted[n].chunk) * 100 + emitted[n].window * precision
          /\ emitted[n].at = seconds_to_hms(emitted[n].seconds100 \div 100)
    /\ \A n, m \in DOMAIN emitted :
          n < m => /\ emitted[n].seconds100 < emitted[m].seconds100
                   /\ emitted[n].chunk <= emitted[m].chunk

\* the second class pass has written detections for both of its frames, the
\* first of them not at the frame's first window
C33_Witness ==
    /\ Len(todo) = 1
    /\ idx = 2
    /\ \E n, m \in DOMAIN emitted :
          /\ emitted[n].chunk = 0 /\ emitted[n].window > 0
          /\ emitted[m].chunk = 1 /\ emitted[m].at = <<0, 0, 30>>

\* C34: reconciliation and download_audio agree on whether a reference is
\* logged: the reference counts as logged in the filter loop (line 871) if and
\* only if download_audio finds it processed for at least one class (lines
\* 272-275, 294), whatever rows the ledger holds and whatever form the
\* reference has.
C34_LoggedAgreement ==
    (Filtered /\ Handled) => (log_entry_exists(LastUrl) <=> last.logged)

\* C35: a run whose list came out of reconciliation (list file, playlist in
\* either URL form, channel) goes through the per-reference loop with
\* processing_batch true, so download_audio reads the snapshots and a declined
\* re-download moves on to the next reference instead of ending the run.
C35_BatchMode ==
    (Filtered /\ i >= 1) =>
        /\ processing_batch
        /\ Handled => last.ret # "exit"

\* the run has written a ledger row for the reference at position p
WrittenFor(p) ==
    \E j \in DOMAIN ledger :
        j > Len(ledger0) /\ ledger[j].url = ReplaceShorts(args_files[p])

\* C36: in single-item mode, once a run has written a ledger row for a
\* reference, the ledger lookup of a later single-item run on the same reference
\* string (check_log, line 275) reports it processed for at least one class,
\* whatever the reference's form and whatever class was recorded.
C36_LedgerRoundTrip ==
    first_file = "url" =>
        \A p \in DOMAIN args_files :
            WrittenFor(p) =>
                \/ check_log(args_files[p], ledger).farts
                \/ check_log(args_files[p], ledger).burps

\* every reference of the batch has the same identifier for reconciliation
\* (line 870) and for download_audio (line 254)
SameIdentifiers == \A p \in DOMAIN urls : SplitWatch(urls[p]) = InfoId(urls[p])

\* C37: in a batch run whose references have the same identifier for
\* download_audio and for reconciliation, no reference that the snapshots hold
\* as logged and cached is shown the run-inference-again prompt, and skip_all
\* stays false for the whole run.
C37_NoRerunPromptInBatch ==
    (Filtered /\ processing_batch /\ SameIdentifiers) =>
        /\ ~skip_all
        /\ (Handled /\ last.logged /\ last.existing # NoFile) =>
              "rerun_inference" \notin last.prompts

\* a logged and cached reference of such a batch went through download_audio
C37_Witness ==
    /\ Filtered /\ processing_batch /\ SameIdentifiers
    /\ Handled /\ last.logged /\ last.existing # NoFile
    /\ last.branch = "REINFER_EXISTING"
    /\ last.ret = "file"

\* C38: a ledger row for (reference, class) is appended only if the classifier
\* was invoked on at least one frame of the reference's asset for that class in
\* the same run: whenever the ledger grows, the pass that ends has classified
\* at least one chunk.
C38_EntryNeedsFrame ==
    [][Len(ledger') > Len(ledger) => idx >= 1]_vars

\* C39: a cached asset is deleted only by the answer 'n' (re-download) at the
\* cached-but-unlogged prompt of download_audio; any other answer to that
\* prompt, unrecognised input included, hands back the existing asset, and
\* every other prompt, branch and step of the run leaves the cached assets as
\* they are.
C39_OnlyRedownloadDeletes ==
    [][/\ (\E f \in files : f \notin files') =>
             /\ last'.fn = "download_audio"
             /\ "use_existing" \in last'.prompts
             /\ last'.answer = "n"
       /\ (/\ pc = "acquire"
           /\ last'.fn = "download_audio"
           /\ "use_existing" \in last'.prompts
           /\ last'.answer # "n") =>
             /\ files' = files
             /\ last'.ret = "file"
             /\ file' = last'.existing]_vars

\* the answer 'n' has removed the cached file and the download that followed
\* failed: the asset is gone
C39_Witness ==
    /\ last.fn = "download_audio"
    /\ "use_existing" \in last.prompts
    /\ last.answer = "n"
    /\ last.removed
    /\ last.existing \in files0
    /\ last.existing \notin files

\* the elements of us at the positions of S, in the order of us
AtPositions(us, S) ==
    LET kept == SelectSeq([k \in DOMAIN us |-> k], LAMBDA k : k \in S)
    IN [n \in DOMAIN kept |-> us[kept[n]]]

\* C40: the references reconciliation selects for processing are an
\* order-preserving subsequence of the resolved urls: each position of urls is
\* taken at most once and the order of urls is kept, under every policy and on
\* the re-run-all path.
C40_SelectedSubsequence ==
    Filtered => \E S \in SUBSET DOMAIN urls : args_files = AtPositions(urls, S)

\* a policy has selected both of two different references, and another run
\* only the second of two
C40_Witness ==
    /\ Filtered
    /\ Len(urls) = 2
    /\ urls[1] # urls[2]
    /\ process_logged_missing \in {"False", "True"}
    /\ \/ args_files = urls
       \/ args_files = <<urls[2]>>

====
